---- MODULE Spec2Model ----
(***************************************************************************)
(* Model of pgmpy/continuous/factors/ContinuousFactor.py: the class        *)
(* ContinuousFactor(rv_continuous) with __init__, _pdf and discretize.     *)
(*                                                                         *)
(* Python values are records [k, n, s]: k is the Python type, n an integer *)
(* payload, s a string payload.  Floats are kept in hundredths (0.5 is     *)
(* PyFloat(50)); the code never computes with them, it only passes them on. *)
(* A call has an outcome (return value or raised exception) and a trace:   *)
(* the calls into collaborators (the user's function, the discretizer)     *)
(* that the handler made, in order.                                        *)
(***************************************************************************)
EXTENDS Integers, Sequences, FiniteSets, TLC

VARIABLES heap, ctor, last, seen

vars == <<heap, ctor, last, seen>>

\* ---------------------------------------------------------------- bounds
MaxAbs == 4
MaxBins == 2

\* ---------------------------------------------------------- Python values
PyVal(kind, num, str) == [k |-> kind, n |-> num, s |-> str]
PyNone == PyVal("NoneType", 0, "")
PyUnset == PyVal("unset", 0, "")
PyInt(i) == PyVal("int", i, "")
PyFloat(h) == PyVal("float", h, "")
PyInf(sign) == PyVal("float_inf", sign, "")
PyBool(v) == PyVal("bool", IF v THEN 1 ELSE 0, "")
PyFunc(name) == PyVal("function", 0, name)
PyClass(name) == PyVal("class", 0, name)
PyInstance(cls) == PyVal("instance", 0, cls)
PyFactor(id) == PyVal("ContinuousFactor", id, "")
PyList(items) == [k |-> "list", n |-> Len(items), s |-> "", items |-> items]

Return(v) == [kind |-> "return", exc |-> "", msg |-> <<>>, val |-> v]
Raise(e, m) == [kind |-> "raise", exc |-> e, msg |-> m, val |-> PyNone]

Ev(e, t, a, kw) == [ev |-> e, tgt |-> t, args |-> a, kw |-> kw]
NoKw == <<>>

\* str(v) as Python prints it
Str(v) ==
  CASE v.k = "int" -> ToString(v.n)
    [] v.k = "class" -> "<class '" \o v.s \o "'>"
    [] v.k = "instance" -> "<" \o v.s \o " object>"
    [] v.k = "NoneType" -> "None"
    [] OTHER -> "<" \o v.k \o ">"

\* ------------------------------------------------- the user's functions
\* custom_pdf = lambda x : 0.5 if x > -1 and x < 1 else 0
custom_pdf(x) ==
  IF x > -1 /\ x < 1 THEN Return(PyFloat(50)) ELSE Return(PyInt(0))

\* a density that is not zero anywhere: lambda x: 0.25
flat_pdf(x) == Return(PyFloat(25))

\* a density that raises on part of its domain
strict_pdf(x) ==
  IF x < 0 THEN Raise("ValueError", <<"negative argument">>)
  ELSE IF x < 2 THEN Return(PyFloat(50)) ELSE Return(PyInt(0))

Funcs == {"custom_pdf", "flat_pdf", "strict_pdf"}

\* f(*args) for a user function f of one parameter
Apply(f, args) ==
  IF Len(args) # 1
    THEN Raise("TypeError", <<f, "() takes 1 positional argument">>)
    ELSE CASE f = "custom_pdf" -> custom_pdf(args[1].n)
           [] f = "flat_pdf" -> flat_pdf(args[1].n)
           [] f = "strict_pdf" -> strict_pdf(args[1].n)
           [] OTHER -> Raise("TypeError", <<"object is not callable">>)

CallUser(f, args) ==
  [out |-> Apply(f.s, args), trace |-> <<Ev("call", f.s, args, NoKw)>>]

\* --------------------------------- pgmpy.continuous.discretize (external)
\* The class hierarchy issubclass walks: every class and its base.
Parent ==
  [c \in {"object", "dict", "BaseDiscretizer", "RoundingDiscretizer",
          "UnbiasedDiscretizer"} |->
     CASE c = "object" -> ""
       [] c = "dict" -> "object"
       [] c = "BaseDiscretizer" -> "object"
       [] OTHER -> "BaseDiscretizer"]

RECURSIVE IsSubclass(_, _)
IsSubclass(c, base) ==
  IF c = base THEN TRUE
  ELSE IF Parent[c] = "" THEN FALSE
  ELSE IsSubclass(Parent[c], base)

\* the builtin issubclass(method, base): a TypeError of its own when the
\* first argument is not a class
issubclass(method, base) ==
  IF method.k # "class"
    THEN Raise("TypeError", <<"issubclass() arg 1 must be a class">>)
    ELSE Return(PyBool(IsSubclass(method.s, base)))

\* BaseDiscretizer.__init__(self, factor, low, high, cardinality)
DiscParams == <<"factor", "low", "high", "cardinality">>

ParamIndex(nm) == CHOOSE i \in 1..Len(DiscParams) : DiscParams[i] = nm

\* Python's binding of positional and keyword arguments to DiscParams
BindArgs(pos, kw) ==
  IF Len(pos) > Len(DiscParams)
    THEN Raise("TypeError", <<"__init__() takes 5 positional arguments">>)
  ELSE IF \E nm \in DOMAIN kw : \A i \in 1..Len(DiscParams) : DiscParams[i] # nm
    THEN Raise("TypeError", <<"__init__() got an unexpected keyword argument">>)
  ELSE IF \E nm \in DOMAIN kw : ParamIndex(nm) <= Len(pos)
    THEN Raise("TypeError", <<"__init__() got multiple values for argument">>)
  ELSE IF \E i \in 1..Len(DiscParams) : i > Len(pos) /\ DiscParams[i] \notin DOMAIN kw
    THEN Raise("TypeError", <<"__init__() missing required positional argument">>)
  ELSE [kind |-> "return", exc |-> "", msg |-> <<>>,
        val |-> [i \in 1..Len(DiscParams) |->
                   IF i <= Len(pos) THEN pos[i] ELSE kw[DiscParams[i]]]]

\* method(factor, *args, **kwargs): the new discretizer object, or the
\* TypeError of a call that does not fit the signature
NewDiscretizer(cls, pos, kw) ==
  LET b == BindArgs(pos, kw) IN
  IF b.kind = "raise" THEN b
  ELSE [kind |-> "return", exc |-> "", msg |-> <<>>,
        val |-> [cls |-> cls, factor |-> b.val[1], low |-> b.val[2],
                 high |-> b.val[3], cardinality |-> b.val[4]]]

\* The k-th point a discretizer evaluates the density at.  The algorithms
\* are outside this file; each class stands for a deterministic one that
\* reads the density through the factor it was constructed with:
\* RoundingDiscretizer at the left end of each bin, UnbiasedDiscretizer
\* at the right end.
DiscPoint(obj, k) ==
  LET step == (obj.high.n - obj.low.n) \div obj.cardinality.n IN
  IF obj.cls = "RoundingDiscretizer"
    THEN obj.low.n + (k - 1) * step
    ELSE obj.low.n + k * step

\* values of bins k..cardinality; the first error of factor.pdf ends it
RECURSIVE DiscValues(_, _, _)
DiscValues(obj, h, k) ==
  IF k > obj.cardinality.n THEN [out |-> Return(PyList(<<>>)), trace |-> <<>>]
  ELSE LET c == CallUser(h[obj.factor.n].pdf, <<PyInt(DiscPoint(obj, k))>>) IN
       IF c.out.kind = "raise" THEN c
       ELSE LET rest == DiscValues(obj, h, k + 1) IN
            IF rest.out.kind = "raise"
              THEN [out |-> rest.out, trace |-> c.trace \o rest.trace]
              ELSE [out |-> Return(PyList(<<c.out.val>> \o rest.out.val.items)),
                    trace |-> c.trace \o rest.trace]

\* obj.get_discrete_values()
get_discrete_values(obj, h) ==
  LET r == DiscValues(obj, h, 1) IN
  [out |-> r.out,
   trace |-> <<Ev("get_discrete_values", obj.cls,
                 <<obj.factor, obj.low, obj.high, obj.cardinality>>, NoKw)>>
             \o r.trace]

\* ------------------------------------------------------ ContinuousFactor
\* an instance before __init__ has run
Unconstructed == [pdf |-> PyUnset, a |-> PyUnset, b |-> PyUnset, momtype |-> -1]

\* a parameter the caller left out takes the default of the signature
Absent == PyVal("absent", 0, "")
Default(arg, dflt) == IF arg = Absent THEN dflt ELSE arg

\* rv_continuous.__init__(momtype, a, b) of the inherited base: the support
\* bounds, with None standing for minus / plus infinity
rv_continuous_init(obj, momtype, a, b) ==
  [obj EXCEPT !.momtype = momtype,
              !.a = IF a = PyNone THEN PyInf(-1) ELSE a,
              !.b = IF b = PyNone THEN PyInf(1) ELSE b]

\* __init__ with the bounds handed to the base in the wrong order
init_swapped(h, self, pdf, lbArg, ubArg) ==
  LET lb == Default(lbArg, PyNone)
      ub == Default(ubArg, PyNone)
      stored == [h[self] EXCEPT !.pdf = pdf]
  IN [out |-> Return(PyNone),
      trace |-> <<>>,
      heap |-> [h EXCEPT ![self] = rv_continuous_init(stored, 0, ub, lb)]]

\* __init__ with pdf kept on the class, so that every instance sees it
init_shared(h, self, pdf, lbArg, ubArg) ==
  LET lb == Default(lbArg, PyNone)
      ub == Default(ubArg, PyNone)
      shared == [n \in DOMAIN h |->
                   IF n = self \/ h[n].pdf # PyUnset
                     THEN [h[n] EXCEPT !.pdf = pdf] ELSE h[n]]
  IN [out |-> Return(PyNone),
      trace |-> <<>>,
      heap |-> [shared EXCEPT ![self] = rv_continuous_init(shared[self], 0, lb, ub)]]

\* ContinuousFactor.__init__(self, pdf, lb=None, ub=None)
__init__(h, self, pdf, lbArg, ubArg) ==
  LET lb == Default(lbArg, PyNone)
      ub == Default(ubArg, PyNone)
      stored == [h[self] EXCEPT !.pdf = pdf]
  IN [out |-> Return(PyNone),
      trace |-> <<>>,
      heap |-> [h EXCEPT ![self] = rv_continuous_init(stored, 0, lb, ub)]]

\* _pdf that forwards args[1:] and so loses the first argument
pdf_drops_first(h, self, args) ==
  LET c == CallUser(h[self].pdf, SubSeq(args, 2, Len(args))) IN
  [out |-> c.out, trace |-> c.trace, heap |-> h]

\* _pdf that answers 0 outside the support (a, b) without asking pdf
pdf_clipped(h, self, args) ==
  LET c == CallUser(h[self].pdf, args)
      a == h[self].a
      b == h[self].b
      below == a.k = "int" /\ args[1].n <= a.n
      above == b.k = "int" /\ args[1].n >= b.n
  IN IF below \/ above
       THEN [out |-> Return(PyInt(0)), trace |-> <<>>, heap |-> h]
       ELSE [out |-> c.out, trace |-> c.trace, heap |-> h]

\* _pdf that catches an error of pdf and answers 0
pdf_swallows(h, self, args) ==
  LET c == CallUser(h[self].pdf, args) IN
  [out |-> IF c.out.kind = "raise" THEN Return(PyInt(0)) ELSE c.out,
   trace |-> c.trace, heap |-> h]

\* ContinuousFactor._pdf(self, *args)
_pdf(h, self, args) ==
  LET c == CallUser(h[self].pdf, args) IN
  [out |-> c.out, trace |-> c.trace, heap |-> h]

\* method(*pos, **kwargs).get_discrete_values()
ConstructAndCompute(h, method, pos, kwargs) ==
  LET made == NewDiscretizer(method.s, pos, kwargs)
      new == <<Ev("new", method.s, pos, kwargs)>>
  IN IF made.kind = "raise"
       THEN [out |-> made, trace |-> new]
       ELSE LET g == get_discrete_values(made.val, h) IN
            [out |-> g.out, trace |-> new \o g.trace]

\* "{} must be Discretizer class.".format(method), in its two pieces
MustBeDiscretizer(method) == <<Str(method), " must be Discretizer class.">>

\* discretize that leaves the distribution argument to the caller
discretize_noself(h, self, method, args, kwargs) ==
  LET chk == issubclass(method, "BaseDiscretizer") IN
  IF chk.kind = "raise"
    THEN [out |-> chk, trace |-> <<>>, heap |-> h]
  ELSE IF chk.val = PyBool(FALSE)
    THEN [out |-> Raise("TypeError", MustBeDiscretizer(method)),
          trace |-> <<>>, heap |-> h]
  ELSE LET r == ConstructAndCompute(h, method, args, kwargs)
       IN [out |-> r.out, trace |-> r.trace, heap |-> h]

\* discretize that calls method first and checks what it got afterwards
discretize_late_check(h, self, method, args, kwargs) ==
  LET chk == issubclass(method, "BaseDiscretizer")
      pos == <<PyFactor(self)>> \o args
  IN IF chk.kind = "raise" \/ chk.val = PyBool(FALSE)
       THEN [out |-> Raise("TypeError", MustBeDiscretizer(method)),
             trace |-> <<Ev("new", method.s, pos, kwargs)>>, heap |-> h]
       ELSE LET r == ConstructAndCompute(h, method, pos, kwargs)
            IN [out |-> r.out, trace |-> r.trace, heap |-> h]

\* discretize that narrows the support of the node to the range it was
\* asked to discretize
discretize_truncates(h, self, method, args, kwargs) ==
  LET chk == issubclass(method, "BaseDiscretizer") IN
  IF chk.kind = "raise"
    THEN [out |-> chk, trace |-> <<>>, heap |-> h]
  ELSE IF chk.val = PyBool(FALSE)
    THEN [out |-> Raise("TypeError", MustBeDiscretizer(method)),
          trace |-> <<>>, heap |-> h]
  ELSE LET r == ConstructAndCompute(h, method, <<PyFactor(self)>> \o args, kwargs)
       IN [out |-> r.out, trace |-> r.trace,
           heap |-> IF Len(args) >= 2
                      THEN [h EXCEPT ![self].a = args[1], ![self].b = args[2]]
                      ELSE h]

\* discretize that leaves the node with a density of its own making
discretize_rebinds(h, self, method, args, kwargs) ==
  LET chk == issubclass(method, "BaseDiscretizer") IN
  IF chk.kind = "raise"
    THEN [out |-> chk, trace |-> <<>>, heap |-> h]
  ELSE IF chk.val = PyBool(FALSE)
    THEN [out |-> Raise("TypeError", MustBeDiscretizer(method)),
          trace |-> <<>>, heap |-> h]
  ELSE LET r == ConstructAndCompute(h, method, <<PyFactor(self)>> \o args, kwargs)
       IN [out |-> r.out, trace |-> r.trace,
           heap |-> [h EXCEPT ![self].pdf = PyFunc("flat_pdf")]]

\* ContinuousFactor.discretize(self, method, *args, **kwargs)
discretize(h, self, method, args, kwargs) ==
  LET chk == issubclass(method, "BaseDiscretizer") IN
  IF chk.kind = "raise"
    THEN [out |-> chk, trace |-> <<>>, heap |-> h]
  ELSE IF chk.val = PyBool(FALSE)
    THEN [out |-> Raise("TypeError", MustBeDiscretizer(method)),
          trace |-> <<>>, heap |-> h]
  ELSE LET r == ConstructAndCompute(h, method, <<PyFactor(self)>> \o args, kwargs)
       IN [out |-> r.out, trace |-> r.trace, heap |-> h]

\* ------------------------------------------------------------ the inputs
Nodes == {1, 2}

Points == {-MaxAbs, 0, 2, MaxAbs}

\* lb and ub as a caller gives them: left out, or the bound of the example
LbArgs == {Absent, PyInt(-3)}
UbArgs == {Absent, PyInt(3)}

\* the argument tuples of a density evaluation
PdfArgs == {<<PyInt(x)>> : x \in Points} \cup {<<PyInt(0), PyInt(0)>>}

\* what a caller may pass as method: two discretizer classes, an unrelated
\* class, an integer, an instance of a discretizer
Discretizers == {PyClass("RoundingDiscretizer"), PyClass("UnbiasedDiscretizer")}
Methods ==
  Discretizers \cup {PyClass("dict"), PyInt(5), PyInstance("RoundingDiscretizer")}

Ranges == {<<-MaxAbs, 0>>, <<0, MaxAbs>>}

\* how (lo, hi, n) are passed: all positional, hi and n by keyword, or as
\* the example of the docstring does, with the node itself in front
Styles == {"positional", "keyword", "docstring"}

CallArgs(style, self, lo, hi, n) ==
  CASE style = "positional" -> <<PyInt(lo), PyInt(hi), PyInt(n)>>
    [] style = "keyword" -> <<PyInt(lo)>>
    [] OTHER -> <<PyFactor(self), PyInt(lo), PyInt(hi), PyInt(n)>>

CallKw(style, hi, n) ==
  IF style = "keyword"
    THEN [nm \in {"high", "cardinality"} |->
            IF nm = "high" THEN PyInt(hi) ELSE PyInt(n)]
    ELSE NoKw

\* the calls of discretize tried: every discretizer over every range and
\* bin count, and every method in every style over one range
DiscInputs ==
  {<<m, rg, nb, "positional">> : m \in Discretizers, rg \in Ranges, nb \in 1..MaxBins}
  \cup {<<m, <<0, MaxAbs>>, MaxBins, st>> : m \in Methods, st \in Styles}

\* ------------------------------------------------------ the state machine
\* heap: the attributes of each instance; ctor: the arguments its
\* constructor was called with; last: the last call, its outcome and its
\* trace; seen: the outcomes observed so far for each density evaluation,
\* and whether the last evaluation repeated an earlier one
NoCall ==
  [op |-> "none", self |-> 0, method |-> PyNone, args |-> <<>>, kw |-> NoKw,
   out |-> Return(PyNone), trace |-> <<>>]

Init ==
  /\ heap = [n \in Nodes |-> Unconstructed]
  /\ ctor = [n \in Nodes |-> Unconstructed]
  /\ last = NoCall
  /\ seen = [outs |-> [a \in PdfArgs |-> {}], again |-> FALSE]

Constructed(n) == heap[n] # Unconstructed

\* node = ContinuousFactor(pdf, lb, ub)
Construct(n) ==
  /\ ~Constructed(n)
  /\ \E f \in Funcs, lbArg \in LbArgs, ubArg \in UbArgs :
       LET r == __init__(heap, n, PyFunc(f), lbArg, ubArg) IN
       /\ heap' = r.heap
       /\ ctor' = [ctor EXCEPT ![n] = [pdf |-> PyFunc(f), a |-> lbArg,
                                        b |-> ubArg, momtype |-> 0]]
       /\ last' = [op |-> "__init__", self |-> n, method |-> PyNone,
                   args |-> <<PyFunc(f), lbArg, ubArg>>, kw |-> NoKw,
                   out |-> r.out, trace |-> r.trace]
       /\ UNCHANGED seen

\* node._pdf(*args)
EvalPdf(n) ==
  /\ Constructed(n)
  /\ \E args \in PdfArgs :
       LET r == _pdf(heap, n, args) IN
       /\ heap' = r.heap
       /\ last' = [op |-> "_pdf", self |-> n, method |-> PyNone,
                   args |-> args, kw |-> NoKw,
                   out |-> r.out, trace |-> r.trace]
       /\ UNCHANGED <<ctor, seen>>

\* node.discretize(method, *args, **kwargs)
Discretize(n) ==
  /\ Constructed(n)
  /\ \E in \in DiscInputs :
       LET args == CallArgs(in[4], n, in[2][1], in[2][2], in[3])
           kw == CallKw(in[4], in[2][2], in[3])
           r == discretize(heap, n, in[1], args, kw)
       IN /\ heap' = r.heap
          /\ last' = [op |-> "discretize", self |-> n, method |-> in[1],
                      args |-> args, kw |-> kw,
                      out |-> r.out, trace |-> r.trace]
          /\ UNCHANGED <<ctor, seen>>

Next == \E n \in Nodes : Construct(n) \/ EvalPdf(n) \/ Discretize(n)

Spec == Init /\ [][Next]_vars

\* One instance, with every outcome of every density evaluation recorded.
EvalPdfSeen ==
  /\ Constructed(1)
  /\ \E args \in PdfArgs :
       LET r == _pdf(heap, 1, args) IN
       /\ heap' = r.heap
       /\ last' = [op |-> "_pdf", self |-> 1, method |-> PyNone,
                   args |-> args, kw |-> NoKw,
                   out |-> r.out, trace |-> r.trace]
       /\ seen' = [outs |-> [seen.outs EXCEPT ![args] = @ \cup {r.out}],
                   again |-> seen.outs[args] # {}]
       /\ UNCHANGED ctor

NextOne == Construct(1) \/ EvalPdfSeen \/ Discretize(1)

SpecOne == Init /\ [][NextOne]_vars

\* ------------------------------------------------------------ properties
\* x lies strictly inside the bounds the constructor of node n was given
InBounds(n, x) ==
  /\ ctor[n].a = Absent \/ ctor[n].a.n < x
  /\ ctor[n].b = Absent \/ x < ctor[n].b.n

\* the last call was a density evaluation at one point
EvalAtPoint == last.op = "_pdf" /\ Len(last.args) = 1

\* the last call was the example of the docstring: custom_pdf on (-3, 3)
CustomExample(x) ==
  /\ EvalAtPoint
  /\ ctor[last.self].pdf = PyFunc("custom_pdf")
  /\ ctor[last.self].a = PyInt(-3)
  /\ ctor[last.self].b = PyInt(3)
  /\ last.args = <<PyInt(x)>>

\* C1: a density evaluation at a point x inside (lb, ub) has the outcome of
\* f(x), f being the function the node was constructed with; for custom_pdf
\* on (-3, 3) that is 0.5 at x = 0 and 0 at x = 2.
C1_EvalReturnsF ==
  /\ (EvalAtPoint /\ InBounds(last.self, last.args[1].n))
       => last.out = Apply(ctor[last.self].pdf.s, last.args)
  /\ CustomExample(0) => last.out = Return(PyFloat(50))
  /\ CustomExample(2) => last.out = Return(PyInt(0))

C1_Witness == CustomExample(0) /\ last.out = Return(PyFloat(50))

\* the last call was discretize with a discretizer class as method
DiscretizeValid == last.op = "discretize" /\ last.method \in Discretizers

\* the last call was discretize with anything else as method
DiscretizeInvalid == last.op = "discretize" /\ last.method \notin Discretizers

\* the events of a trace that are of kind e
EventsOf(trace, e) == {i \in 1..Len(trace) : trace[i].ev = e}

C3_InvalidMethodFailsFirst ==
  DiscretizeInvalid =>
    /\ last.out.kind = "raise"
    /\ last.out.exc = "TypeError"
    /\ last.trace = <<>>

C3_Witness ==
  /\ DiscretizeInvalid
  /\ last.method = PyInstance("RoundingDiscretizer")
  /\ last.out.exc = "TypeError"

\* the message of the error raised names the value v
MessageNames(v) == \E i \in 1..Len(last.out.msg) : last.out.msg[i] = Str(v)

\* C4: the error of discretize for a method that is not a discretizer class,
\* a class or not, carries a message that names the method.
C4_MessageNamesMethod ==
  DiscretizeInvalid => (last.out.kind = "raise" /\ MessageNames(last.method))

\* C5: when the user's function raises in a density evaluation, the caller
\* gets that error, with its type and message, and nothing else.
C5_ErrorPropagates ==
  (last.op = "_pdf" /\ Apply(ctor[last.self].pdf.s, last.args).kind = "raise")
    => last.out = Apply(ctor[last.self].pdf.s, last.args)

C5_Witness ==
  /\ last.op = "_pdf"
  /\ last.out.kind = "raise"
  /\ last.out.exc = "ValueError"

\* the support bound a constructor argument stands for
BoundOf(arg, sign) == IF arg = Absent THEN PyInf(sign) ELSE arg

\* node n holds what its constructor was given
HoldsCtorArgs(n) ==
  /\ heap[n].pdf = ctor[n].pdf
  /\ heap[n].a = BoundOf(ctor[n].a, -1)
  /\ heap[n].b = BoundOf(ctor[n].b, 1)

\* C6: a constructed node holds the density and the bounds its constructor
\* was given, whatever was called since; and no density evaluation or
\* discretize call, failing or not, changes an attribute of a node.
C6_NeverReplaced ==
  [][/\ \A n \in Nodes : Constructed(n)' => HoldsCtorArgs(n)'
     /\ last'.op \in {"_pdf", "discretize"} => heap' = heap]_vars

C6_Witness ==
  /\ last.op = "discretize"
  /\ last.out.kind = "return"
  /\ ctor[last.self].a = PyInt(-3)
  /\ HoldsCtorArgs(last.self)

\* C7: a call on one node leaves every attribute of every other node as
\* it was.
C7_InstancesIndependent ==
  [][\A n \in Nodes : n # last'.self => heap'[n] = heap[n]]_vars

C7_Witness ==
  /\ \A n \in Nodes : Constructed(n)
  /\ heap[1].pdf # heap[2].pdf
  /\ last.op = "__init__"

\* C8: all evaluations of the density of a node with the same arguments
\* have had the same outcome, whatever was called between them.
C8_EvalRepeatable ==
  \A a \in PdfArgs : Cardinality(seen.outs[a]) <= 1

C8_Witness ==
  /\ seen.again
  /\ last.op = "_pdf"
  /\ last.out.kind = "return"

\* C9: a node constructed without lb has lower support bound -inf, one
\* constructed without ub has upper support bound +inf, each whatever the
\* other is; a bound that is given is the support bound; and the
\* constructor does not call the density.
C9_DefaultBounds ==
  last.op = "__init__" =>
    LET lbArg == last.args[2]
        ubArg == last.args[3]
    IN /\ lbArg = Absent => heap[last.self].a = PyInf(-1)
       /\ ubArg = Absent => heap[last.self].b = PyInf(1)
       /\ lbArg # Absent => heap[last.self].a = lbArg
       /\ ubArg # Absent => heap[last.self].b = ubArg
       /\ heap[last.self].momtype = 0
       /\ last.trace = <<>>

C9_Witness ==
  /\ last.op = "__init__"
  /\ last.args[2] = Absent
  /\ last.args[3] = PyInt(3)
  /\ heap[last.self].a = PyInf(-1)
  /\ heap[last.self].b = PyInt(3)

\* C10: a density evaluation at a point x outside (lb, ub) also has the
\* outcome of f(x), and f was called once, with the arguments given.
C10_NoClipping ==
  (EvalAtPoint /\ ~InBounds(last.self, last.args[1].n)) =>
    /\ last.out = Apply(ctor[last.self].pdf.s, last.args)
    /\ last.trace = <<Ev("call", ctor[last.self].pdf.s, last.args, NoKw)>>

C10_Witness ==
  /\ EvalAtPoint
  /\ ctor[last.self].b = PyInt(3)
  /\ last.args = <<PyInt(MaxAbs)>>
  /\ last.out = Return(PyFloat(25))

====
